---- MODULE Spec2Model ----
(***************************************************************************)
(* Model of src/app.py: a Flask application that forwards weight, BMI and  *)
(* body-fat values to Garmin Connect.  The state is the module-global      *)
(* `api`, the token store on disk, the two credential settings and, for    *)
(* every flow of control (the __main__ startup call and each HTTP          *)
(* request), its position in init_api / submit_body_composition / health.  *)
(* Numbers are in tenths (30 kg = 300) so that 29.9 and 300.1 are values.  *)
(***************************************************************************)
EXTENDS Integers, Sequences, FiniteSets, TLC

\* ---- bounds ------------------------------------------------------------
NumRequests == 2        \* HTTP requests handled in one process lifetime

\* ---- program constants (tenths) ----------------------------------------
WeightMin  == 300
WeightMax  == 3000
BmiMin     == 100
BmiMax     == 600
BodyFatMin == 30
BodyFatMax == 600

None     == 0           \* Python None for `api` and handle-valued results
Main     == 0           \* the __main__ flow of control
Requests == 1..NumRequests
Procs    == {Main} \cup Requests

VARIABLES
  api,          \* module global `api`: None or a handle id
  created,      \* number of Garmin(...) objects constructed; handles are 1..created
  logged,       \* handles whose login() completed successfully
  tokenStore,   \* TOKEN_STORE.exists()
  writes,       \* number of garth.dump() calls that wrote the token store
  logins,       \* number of login() calls made, accepted or rejected
  email,        \* GARMIN_EMAIL is set (truthy)
  password,     \* GARMIN_PASSWORD is set (truthy)
  pc,           \* position of each flow of control
  kind,         \* "startup", "submit", "health"; "none" before and after the flow
  req,          \* JSON body of the request being handled
  loc,          \* locals of submit_body_composition: weight, bmi, body_fat, today
  ret,          \* garmin_api: what init_api returned to this caller (None: not yet)
  trace,        \* token-store, constructor and login events of this init_api call
  returned,     \* every handle init_api has returned to a caller
  overlap,      \* some init_api call began while another one was in progress
  out           \* the flow that ended last: its request, locals, events and answer

vars == <<api, created, logged, tokenStore, writes, logins, email, password,
          pc, kind, req, loc, ret, trace, returned, overlap, out>>

shared == <<api, created, logged, tokenStore, writes, logins>>
config == <<email, password>>

\* ---- JSON field values and float() -------------------------------------
\* A field of the JSON body: absent (data.get gives None), a number, a string
\* that float() parses, or a string that it does not.
Absent    == [k |-> "none",   v |-> 0]
Text      == [k |-> "text",   v |-> 0]
Num(n)    == [k |-> "num",    v |-> n]
NumStr(n) == [k |-> "numstr", v |-> n]

\* float(x): TypeError for None, ValueError for a string that is no number.
FloatOf(x) ==
  CASE x.k = "none" -> [exc |-> "TypeError",  v |-> 0]
    [] x.k = "text" -> [exc |-> "ValueError", v |-> 0]
    [] OTHER        -> [exc |-> "none",       v |-> x.v]

\* Lines 90-92: the three conversions in order; the first that raises ends
\* the parse with its exception.
ParseFields(data) ==
  LET w == FloatOf(data.weight)
      b == FloatOf(data.bmi)
      f == FloatOf(data.bodyFat)
      first == IF w.exc /= "none" THEN w.exc
               ELSE IF b.exc /= "none" THEN b.exc
               ELSE f.exc
  IN [exc |-> first, weight |-> w.v, bmi |-> b.v, body_fat |-> f.v]

\* The bounds taken as exclusive.
BetweenExclusive(lo, x, hi) == lo < x /\ x < hi

\* lo <= x <= hi, Python's chained comparison.
Between(lo, x, hi) == lo <= x /\ x <= hi

\* Lines 95-111: the first failing range check names the error; "" when all pass.
RangeError(weight, bmi, body_fat) ==
  IF ~Between(WeightMin, weight, WeightMax) THEN "Weight must be between 30 and 300 kg"
  ELSE IF ~Between(BmiMin, bmi, BmiMax) THEN "BMI must be between 10 and 60"
  ELSE IF ~Between(BodyFatMin, body_fat, BodyFatMax)
       THEN "Body fat percentage must be between 3 and 60"
  ELSE ""

\* ---- responses ---------------------------------------------------------
\* date.today().isoformat(): the process is observed within one calendar day.
Today == "today"

NoData == [date |-> "", weight |-> 0, bmi |-> 0, bodyFat |-> 0]
NoResp == [status |-> 0, success |-> FALSE, error |-> "", data |-> NoData,
           health |-> "", connected |-> FALSE]

ErrorResp(code, msg) == [NoResp EXCEPT !.status = code, !.error = msg]

\* Exceptions the external client raises, by Python class; "Exception" stands
\* for any class that none of the named except clauses matches.
ExternalFailures == {"GarminConnectAuthenticationError",
                     "GarminConnectConnectionError",
                     "GarminConnectTooManyRequestsError",
                     "GarthHTTPError",
                     "Exception"}

\* The except clauses with the catch-all tried before the connectivity and
\* rate-limit clauses.
SubmitCatchBroad(e) ==
  CASE e = "ValueError" -> ErrorResp(400, "Invalid input")
    [] e = "GarminConnectAuthenticationError" ->
         ErrorResp(401, "Authentication failed. Please check your credentials.")
    [] OTHER -> ErrorResp(500, "An unexpected error occurred")

\* Lines 142-182: the except clauses of submit_body_composition, in order.
SubmitCatch(e) ==
  CASE e = "ValueError" -> ErrorResp(400, "Invalid input")
    [] e = "GarminConnectAuthenticationError" ->
         ErrorResp(401, "Authentication failed. Please check your credentials.")
    [] e = "GarminConnectConnectionError" ->
         ErrorResp(503, "Connection error. Please check your internet connection.")
    [] e = "GarminConnectTooManyRequestsError" ->
         ErrorResp(429, "Too many requests. Please wait a moment and try again.")
    [] e = "GarthHTTPError" -> ErrorResp(500, "Garmin API error")
    [] OTHER -> ErrorResp(500, "An unexpected error occurred")

\* Lines 194-198: health answers unhealthy/500 on any exception.
HealthCatch(e) == [ErrorResp(500, e) EXCEPT !.health = "unhealthy"]

\* Lines 206-208: startup logs a warning and goes on.
StartupCatch(e) == [NoResp EXCEPT !.error = "Will retry on first request"]

Catch(k, e) ==
  CASE k = "submit" -> SubmitCatch(e)
    [] k = "health" -> HealthCatch(e)
    [] OTHER        -> StartupCatch(e)

\* Lines 131-140: the success payload.
SuccessResp(today_, weight, bmi, body_fat) ==
  [NoResp EXCEPT !.status = 200, !.success = TRUE,
                 !.data = [date |-> today_, weight |-> weight,
                           bmi |-> bmi, bodyFat |-> body_fat]]

\* Lines 190-193.
HealthResp(garmin_api) ==
  [NoResp EXCEPT !.status = 200, !.health = "healthy",
                 !.connected = (garmin_api /= None)]

\* Line 205: startup succeeded.
StartupResp == [NoResp EXCEPT !.success = TRUE]

\* ---- request bodies ----------------------------------------------------
Body(w, b, f) == [weight |-> w, bmi |-> b, bodyFat |-> f]
NoBody == Body(Absent, Absent, Absent)

\* Values around both bounds of a range, and the three non-number shapes.
Around(lo, hi) == {Absent, Text, NumStr(lo), Num(lo - 1), Num(lo), Num(hi), Num(hi + 1)}

\* Every combination of field shapes and boundary values.
WideBodies == {Body(w, b, f) : w \in Around(WeightMin, WeightMax),
                               b \in Around(BmiMin, BmiMax),
                               f \in Around(BodyFatMin, BodyFatMax)}

\* The bodies of concurrently handled requests: one that validates, one out
\* of range, one with a missing field and one with a non-numeric field.
FewBodies == {Body(Num(725), Num(221), Num(183)),
              Body(Num(150), Num(220), Num(180)),
              Body(Num(725), Absent,   Num(183)),
              Body(Num(725), Num(221), Text)}

\* ---- the state machine -------------------------------------------------
InitApiPcs == {"L39", "L40", "L45", "L47", "L48", "L50", "L60", "L61", "L64", "L68"}

NoLocals == [weight |-> 0, bmi |-> 0, body_fat |-> 0, today |-> ""]
NoRaise  == [exc |-> "none", at |-> "none"]
NoOut    == [kind |-> "none", req |-> NoBody, loc |-> NoLocals,
             ret |-> None, trace |-> <<>>, sent |-> <<>>,
             raised |-> NoRaise, resp |-> NoResp]

Init ==
  /\ api = None
  /\ created = 0
  /\ logged = {}
  /\ tokenStore \in BOOLEAN
  /\ writes = 0
  /\ logins = 0
  /\ email \in BOOLEAN
  /\ password \in BOOLEAN
  \* Line 201: run as a script, the startup call comes first; imported by a
  \* WSGI server, lines 202-212 are skipped and requests come at once.
  /\ \E asMain \in BOOLEAN :
       /\ pc = [t \in Procs |-> IF t /= Main THEN "idle"
                                 ELSE IF asMain THEN "L39" ELSE "done"]
       /\ kind = [t \in Procs |-> IF t = Main /\ asMain THEN "startup" ELSE "none"]
  /\ req = [t \in Procs |-> NoBody]
  /\ loc = [t \in Procs |-> NoLocals]
  /\ ret = [t \in Procs |-> None]
  /\ trace = [t \in Procs |-> <<>>]
  /\ returned = {}
  /\ overlap = FALSE
  /\ out = NoOut

\* The flow of t ends with answer r: the answer and what the flow did become
\* the last output, and the flow's own state is gone.
Finish(t, r, rs, tr, sn, rt) ==
  /\ out' = [kind |-> kind[t], req |-> req[t], loc |-> loc[t],
             ret |-> rt, trace |-> tr, sent |-> sn,
             raised |-> rs, resp |-> r]
  /\ pc' = [pc EXCEPT ![t] = "done"]
  /\ kind' = [kind EXCEPT ![t] = "none"]
  /\ req' = [req EXCEPT ![t] = NoBody]
  /\ loc' = [loc EXCEPT ![t] = NoLocals]
  /\ ret' = [ret EXCEPT ![t] = None]
  /\ trace' = [trace EXCEPT ![t] = <<>>]

\* An exception of class e leaves the flow at line `at`: init_api's except
\* clauses (lines 70-75) log and re-raise, the caller's clauses answer.
Raise(t, e, at, tr, sn) ==
  Finish(t, Catch(kind[t], e), [exc |-> e, at |-> at], tr, sn, ret[t])

\* The caller reaches its call of init_api (lines 114, 189, 204).
CallInitApi(t) ==
  overlap' = (overlap \/ \E u \in Procs \ {t} : pc[u] \in InitApiPcs)

\* init_api returns the global `api` (lines 40, 50, 68) and the caller goes on:
\* startup logs (205), health answers (190-193), submit reads date.today() (117).
ReturnApi(t) ==
  /\ returned' = returned \cup {api}
  /\ IF kind[t] = "submit"
       THEN /\ pc' = [pc EXCEPT ![t] = "L122"]
            /\ ret' = [ret EXCEPT ![t] = api]
            /\ loc' = [loc EXCEPT ![t].today = Today]
            /\ UNCHANGED <<kind, req, trace, out>>
       ELSE Finish(t, IF kind[t] = "health" THEN HealthResp(api) ELSE StartupResp,
                   NoRaise, trace[t], <<>>, api)

\* A POST /submit arrives (the server runs only after the startup call, line 212).
ReceiveSubmit(t, data) ==
  /\ pc[t] = "idle" /\ pc[Main] = "done"
  /\ kind' = [kind EXCEPT ![t] = "submit"]
  /\ req' = [req EXCEPT ![t] = data]
  /\ pc' = [pc EXCEPT ![t] = "L89"]
  /\ UNCHANGED <<shared, config, loc, ret, trace, returned, overlap, out>>

\* A GET /health arrives and calls init_api (line 189).
ReceiveHealth(t) ==
  /\ pc[t] = "idle" /\ pc[Main] = "done"
  /\ kind' = [kind EXCEPT ![t] = "health"]
  /\ pc' = [pc EXCEPT ![t] = "L39"]
  /\ CallInitApi(t)
  /\ UNCHANGED <<shared, config, req, loc, ret, trace, returned, out>>

\* Line 114 moved before the checks: init_api is called whatever the body is.
ValidateAfterCall(t) ==
  /\ pc[t] = "L89"
  /\ LET p == ParseFields(req[t])
     IN /\ pc' = [pc EXCEPT ![t] = "L39"]
        /\ loc' = [loc EXCEPT ![t] = [NoLocals EXCEPT !.weight = p.weight,
                                        !.bmi = p.bmi, !.body_fat = p.body_fat]]
        /\ CallInitApi(t)
        /\ UNCHANGED <<kind, req, ret, trace, out>>
  /\ UNCHANGED <<shared, config, returned>>

\* Lines 89-114: parse, range-check, then call init_api.
Validate(t) ==
  /\ pc[t] = "L89"
  /\ LET p == ParseFields(req[t])
         bad == RangeError(p.weight, p.bmi, p.body_fat)
     IN IF p.exc /= "none"
          THEN /\ Raise(t, p.exc, "parse", <<>>, <<>>)
               /\ UNCHANGED overlap
        ELSE IF bad /= ""
          THEN /\ Finish(t, ErrorResp(400, bad), NoRaise, <<>>, <<>>, None)
               /\ UNCHANGED overlap
        ELSE /\ pc' = [pc EXCEPT ![t] = "L39"]
             /\ loc' = [loc EXCEPT ![t] = [NoLocals EXCEPT !.weight = p.weight,
                                             !.bmi = p.bmi, !.body_fat = p.body_fat]]
             /\ CallInitApi(t)
             /\ UNCHANGED <<kind, req, ret, trace, out>>
  /\ UNCHANGED <<shared, config, returned>>

\* Line 39 with the test lost: every call initializes again.
HasApiNever(a) == FALSE

\* Line 39: `if api is not None`.
HasApi(a) == a /= None

\* Line 39-40 left out: every call goes on to the token store.
L39Skip(t) ==
  /\ pc[t] = "L39"
  /\ pc' = [pc EXCEPT ![t] = "L45"]
  /\ UNCHANGED <<shared, config, kind, req, loc, ret, trace, returned, overlap, out>>

L39(t) ==
  /\ pc[t] = "L39"
  /\ pc' = [pc EXCEPT ![t] = IF HasApi(api) THEN "L40" ELSE "L45"]
  /\ UNCHANGED <<shared, config, kind, req, loc, ret, trace, returned,
                 overlap, out>>

\* Line 40: `return api`.
L40(t) ==
  /\ pc[t] = "L40"
  /\ ReturnApi(t)
  /\ UNCHANGED <<shared, config, overlap>>

\* Lines 45 and 53: TOKEN_STORE.exists(), then the credentials check.
L45(t) ==
  /\ pc[t] = "L45"
  /\ IF tokenStore
       THEN /\ pc' = [pc EXCEPT ![t] = "L47"]
            /\ trace' = [trace EXCEPT ![t] = Append(@, "exists")]
            /\ UNCHANGED <<kind, req, loc, ret, out>>
     ELSE IF ~email \/ ~password
       THEN Raise(t, "ValueError", "L54", Append(trace[t], "exists"), <<>>)
     ELSE /\ pc' = [pc EXCEPT ![t] = "L60"]
          /\ trace' = [trace EXCEPT ![t] = Append(@, "exists")]
          /\ UNCHANGED <<kind, req, loc, ret, out>>
  /\ UNCHANGED <<shared, config, returned, overlap>>

\* Lines 47 and 60: `api = Garmin(...)`, a new handle stored in the global.
NewHandle(t, next, event) ==
  /\ created' = created + 1
  /\ api' = created + 1
  /\ pc' = [pc EXCEPT ![t] = next]
  /\ trace' = [trace EXCEPT ![t] = Append(@, event)]
  /\ UNCHANGED <<logged, tokenStore, writes, logins, config, kind, req, loc, ret,
                 returned, overlap, out>>

L47(t) == pc[t] = "L47" /\ NewHandle(t, "L48", "Garmin()")

L60(t) == pc[t] = "L60" /\ NewHandle(t, "L61", "Garmin(email, password)")

\* Lines 48 and 61: `api.login(...)` on the handle the global holds now; the
\* external service accepts it or raises.
Login(t, next, event, at) ==
  /\ logins' = logins + 1
  /\ \/ /\ logged' = logged \cup {api}
        /\ pc' = [pc EXCEPT ![t] = next]
        /\ trace' = [trace EXCEPT ![t] = Append(@, event)]
        /\ UNCHANGED <<kind, req, loc, ret, out>>
     \/ /\ \E e \in ExternalFailures :
             Raise(t, e, at, Append(trace[t], "login rejected"), <<>>)
        /\ UNCHANGED logged
  /\ UNCHANGED <<api, created, tokenStore, writes, config, returned, overlap>>

\* Line 48 followed by a dump of the tokens, as on the credential path.
L48Dump(t) ==
  /\ pc[t] = "L48"
  /\ logins' = logins + 1
  /\ logged' = logged \cup {api}
  /\ tokenStore' = TRUE
  /\ writes' = writes + 1
  /\ pc' = [pc EXCEPT ![t] = "L50"]
  /\ trace' = [trace EXCEPT ![t] = Append(Append(@, "login(tokenstore)"), "dump")]
  /\ UNCHANGED <<api, created, config, kind, req, loc, ret, returned, overlap, out>>

L48(t) == pc[t] = "L48" /\ Login(t, "L50", "login(tokenstore)", "L48")

L61(t) == pc[t] = "L61" /\ Login(t, "L64", "login()", "L61")

\* Line 50: `return api`.
L50(t) ==
  /\ pc[t] = "L50"
  /\ ReturnApi(t)
  /\ UNCHANGED <<shared, config, overlap>>

\* Lines 64-65: create the parent directory and dump the tokens.
L64(t) ==
  /\ pc[t] = "L64"
  /\ tokenStore' = TRUE
  /\ writes' = writes + 1
  /\ pc' = [pc EXCEPT ![t] = "L68"]
  /\ trace' = [trace EXCEPT ![t] = Append(@, "dump")]
  /\ UNCHANGED <<api, created, logged, logins, config, kind, req, loc, ret,
                 returned, overlap, out>>

\* Line 68: `return api`.
L68(t) ==
  /\ pc[t] = "L68"
  /\ ReturnApi(t)
  /\ UNCHANGED <<shared, config, overlap>>

\* The keyword arguments of line 125-126 mixed up.
RecordSwapped(t) ==
  [date |-> loc[t].today, weight |-> loc[t].weight, percent_fat |-> loc[t].bmi,
   bmi |-> loc[t].body_fat, handle |-> ret[t], loggedIn |-> ret[t] \in logged]

\* Line 122: the record handed to add_body_composition(today, weight=,
\* percent_fat=, bmi=), with the handle it is called on.
Record(t) ==
  [date |-> loc[t].today, weight |-> loc[t].weight, percent_fat |-> loc[t].body_fat,
   bmi |-> loc[t].bmi, handle |-> ret[t], loggedIn |-> ret[t] \in logged]

\* Lines 131-140: the success payload built from the locals.
Echo(t) == SuccessResp(loc[t].today, loc[t].weight, loc[t].bmi, loc[t].body_fat)

\* Lines 122-140: one call of add_body_composition on the handle init_api
\* returned.  The service takes the record only from a logged-in handle; any
\* call may raise.
L122(t) ==
  /\ pc[t] = "L122"
  /\ \/ /\ ret[t] \in logged
        /\ Finish(t, Echo(t), NoRaise, trace[t], <<Record(t)>>, ret[t])
     \/ \E e \in ExternalFailures : Raise(t, e, "L122", trace[t], <<Record(t)>>)
  /\ UNCHANGED <<shared, config, returned, overlap>>

Step(t) ==
  \/ Validate(t)
  \/ L39(t) \/ L40(t) \/ L45(t) \/ L47(t) \/ L48(t) \/ L50(t)
  \/ L60(t) \/ L61(t) \/ L64(t) \/ L68(t)
  \/ L122(t)

\* The process: the startup call, then requests handled concurrently.
Next ==
  \/ \E t \in Requests : \E data \in FewBodies : ReceiveSubmit(t, data)
  \/ \E t \in Requests : ReceiveHealth(t)
  \/ \E t \in Procs : Step(t)

Spec == Init /\ [][Next]_vars

\* One request at a time, with every shape of body.
NextOne ==
  \/ \E data \in WideBodies : ReceiveSubmit(1, data)
  \/ ReceiveHealth(1)
  \/ \E t \in {Main, 1} : Step(t)

SpecOne == Init /\ [][NextOne]_vars

\* ---- properties --------------------------------------------------------
LoginEvents == {"login(tokenstore)", "login()"}
HasLogin(tr) == \E i \in 1..Len(tr) : tr[i] \in LoginEvents

\* C1: when the startup call of init_api ended in a rejected login, a
\* POST /submit that follows it logs in again before it submits.
C1_StartupLoginRetried ==
  \A t \in Requests :
    (/\ out.kind = "startup"
     /\ out.raised.at \in {"L48", "L61"}
     /\ kind[t] = "submit"
     /\ pc[t] = "L122") => HasLogin(trace[t])

\* C2: once init_api has returned a handle, a later call that does not
\* overlap another call goes from line 39 to line 40, returns a handle already
\* returned, and checks, reads and writes no token store, constructs no
\* handle and makes no login.
C2_Idempotent ==
  [][\A t \in Procs :
       (returned /= {} /\ ~overlap' /\ pc[t] \in InitApiPcs /\ pc'[t] /= pc[t]) =>
         /\ pc[t] \in {"L39", "L40"}
         /\ pc[t] = "L39" => pc'[t] = "L40"
         /\ trace[t] = <<>> /\ trace'[t] = <<>>
         /\ returned' = returned
         /\ pc[t] = "L40" => (IF kind[t] = "submit" THEN ret'[t] ELSE out'.ret) \in returned
         /\ UNCHANGED <<api, created, logged, tokenStore, writes, logins>>]_vars

C2_Witness ==
  /\ ~overlap
  /\ out.ret /= None
  /\ \E t \in Requests : pc[t] = "L122" /\ ret[t] = out.ret /\ trace[t] = <<>>
  /\ logins = 1

\* C3: a POST /submit with in-range fields that meets no handle, no token
\* store and a missing credential is answered 401.
C3_ConfigErrorIs401 ==
  (out.kind = "submit" /\ out.raised.at = "L54") => out.resp.status = 401

BadField(x) == x.k \in {"none", "text"}

\* C4: a POST /submit with a missing or non-numeric field fails at the parse
\* step and is answered 400.
C4_BadFieldIs400 ==
  (/\ out.kind = "submit"
   /\ BadField(out.req.weight) \/ BadField(out.req.bmi) \/ BadField(out.req.bodyFat))
  => (out.raised.at = "parse" /\ out.resp.status = 400)

NumericBody(b) == ~BadField(b.weight) /\ ~BadField(b.bmi) /\ ~BadField(b.bodyFat)

WeightOk(b)  == 300 <= b.weight.v /\ b.weight.v <= 3000
BmiOk(b)     == 100 <= b.bmi.v /\ b.bmi.v <= 600
BodyFatOk(b) == 30 <= b.bodyFat.v /\ b.bodyFat.v <= 600

FirstOutOfRange(b) ==
  IF ~WeightOk(b) THEN "Weight must be between 30 and 300 kg"
  ELSE IF ~BmiOk(b) THEN "BMI must be between 10 and 60"
  ELSE "Body fat percentage must be between 3 and 60"

\* C5: a numeric triple passes validation iff 30 <= weight <= 300,
\* 10 <= bmi <= 60 and 3 <= bodyFat <= 60; otherwise the answer is 400 and
\* names the first field out of range in the order weight, BMI, body fat.
C5_RangeCheck ==
  /\ \A t \in Requests :
       (kind[t] = "submit" /\ pc[t] /= "L89") =>
         (NumericBody(req[t]) /\ WeightOk(req[t]) /\ BmiOk(req[t]) /\ BodyFatOk(req[t]))
  /\ (out.kind = "submit" /\ NumericBody(out.req)) =>
       IF WeightOk(out.req) /\ BmiOk(out.req) /\ BodyFatOk(out.req)
         THEN out.resp.status = 200 \/ out.raised.at \in {"L54", "L48", "L61", "L122"}
         ELSE /\ out.resp.status = 400
              /\ out.resp.success = FALSE
              /\ out.resp.error = FirstOutOfRange(out.req)
              /\ out.raised = NoRaise

C5_Witness ==
  /\ out.kind = "submit"
  /\ out.req = Body(Num(300), Num(601), Num(29))
  /\ out.resp.status = 400
  /\ out.resp.error = "BMI must be between 10 and 60"

DocumentedStatus(e) ==
  CASE e = "GarminConnectAuthenticationError"  -> 401
    [] e = "GarminConnectConnectionError"      -> 503
    [] e = "GarminConnectTooManyRequestsError" -> 429
    [] e = "GarthHTTPError"                    -> 500
    [] OTHER                                   -> 500

C7_WriteOnlyAfterCredentialLogin ==
  [][(writes' /= writes \/ tokenStore' /= tokenStore) =>
       /\ writes' = writes + 1
       /\ \E t \in Procs :
            /\ pc'[t] /= pc[t]
            /\ trace[t] = <<"exists", "Garmin(email, password)", "login()">>
            /\ trace'[t] = Append(trace[t], "dump")]_vars

C7_Witness ==
  /\ writes = 1
  /\ tokenStore
  /\ \E t \in Requests :
       /\ pc[t] = "L68"
       /\ trace[t] = <<"exists", "Garmin(email, password)", "login()", "dump">>

C9_EchoOnce ==
  /\ out.kind = "submit" => Len(out.sent) <= 1
  /\ (out.kind = "submit" /\ out.resp.status = 200) =>
       /\ Len(out.sent) = 1
       /\ out.sent[1].date = Today
       /\ out.sent[1].weight = out.req.weight.v
       /\ out.sent[1].percent_fat = out.req.bodyFat.v
       /\ out.sent[1].bmi = out.req.bmi.v
       /\ out.resp.success
       /\ out.resp.data = [date |-> out.sent[1].date, weight |-> out.sent[1].weight,
                           bmi |-> out.sent[1].bmi, bodyFat |-> out.sent[1].percent_fat]

C9_Witness ==
  /\ out.kind = "submit"
  /\ out.resp.status = 200
  /\ out.req = Body(Num(3000), Num(100), NumStr(30))
  /\ out.resp.data.bodyFat = 30

\* C10: add_body_composition is called only on a handle whose login has
\* completed successfully.
C10_OnlyLoggedInHandle ==
  \A i \in 1..Len(out.sent) : out.sent[i].loggedIn

\* C11 as stated: GET /health answers healthy only when the handle it got has
\* logged in successfully, and unhealthy otherwise.
C11_HealthyOnlyLoggedIn ==
  out.kind = "health" =>
    IF out.ret /= None /\ out.ret \in logged
      THEN out.resp.health = "healthy" /\ out.resp.status = 200 /\ out.resp.connected
      ELSE out.resp.health = "unhealthy" /\ out.resp.status = 500

RejectedBody(b) ==
  ~NumericBody(b) \/ ~WeightOk(b) \/ ~BmiOk(b) \/ ~BodyFatOk(b)

\* C12: the step that rejects a POST /submit at the parse or range check ends
\* the request there and leaves the session as it was: no init_api call, no
\* handle, no login, no token-store check, read or write, and no record sent.
C12_RejectedLeavesSession ==
  [][\A t \in Requests :
       (pc[t] = "L89" /\ pc'[t] /= "L89" /\ RejectedBody(req[t])) =>
         /\ pc'[t] = "done"
         /\ out'.req = req[t]
         /\ out'.resp.status \in {400, 500}
         /\ out'.ret = None /\ out'.trace = <<>> /\ out'.sent = <<>>
         /\ UNCHANGED <<api, created, logged, tokenStore, writes, logins,
                        returned, overlap>>]_vars

C12_Witness ==
  /\ out.kind = "submit"
  /\ out.req = Body(Num(150), Num(220), Num(180))
  /\ out.resp.status = 400
  /\ out.ret = None /\ out.trace = <<>> /\ out.sent = <<>>
  /\ api /= None /\ api \in logged
  /\ \E u \in Requests : pc[u] \in InitApiPcs
====
